---- MODULE Spec2Model ----
(***************************************************************************)
(* faust/utils/objects.py: the reverse-MRO class iterator                  *)
(* iter_mro_reversed and the cached_property descriptor.                   *)
(***************************************************************************)
EXTENDS Integers, Sequences, FiniteSets, TLC

VARIABLES
    mro,      \* cls.__mro__ of the walker's target class, most-specific first
    stop,     \* the walker's stop class
    pos,      \* number of entries of reversed(cls.__mro__) already visited
    wanted,   \* the generator's local flag
    out,      \* the classes yielded so far, in order
    descs,    \* the cached_property objects created so far
    origin,   \* history: how each descriptor was made
    dict,     \* obj.__dict__ of every instance
    last,     \* history: the last descriptor operation and what it did
    hist,     \* history: what preceded the last operation on its target
    threads,  \* each thread's position inside a __get__ it is running
    seq       \* history: counts over a sequence of operations on one attribute

vars ==
    <<mro, stop, pos, wanted, out, descs, origin, dict, last, hist, threads, seq>>
walkVars == <<mro, stop, pos, wanted, out>>
propVars == <<descs, origin, dict, last, hist>>
moreVars == <<threads, seq>>

(***************************************************************************)
(* Bounds                                                                  *)
(***************************************************************************)
MaxClass == 3
MaxReads == 3     \* longest run of consecutive reads of one attribute
MaxDescs == 3     \* descriptors built by chaining setter/deleter
NumThreads == 2   \* threads reading an attribute at the same time
MaxOps == 4       \* longest counted sequence of operations on one attribute

(***************************************************************************)
(* Classes.  `object` ends every MRO; the other classes are 1..MaxClass.   *)
(***************************************************************************)
Object == 0
Classes == Object..MaxClass

Range(s) == {s[i] : i \in DOMAIN s}

Reverse(s) == [i \in 1..Len(s) |-> s[Len(s) + 1 - i]]

\* The linearizations a class can have: the class itself first, `object`
\* last, no class twice.
Mros ==
    {m \in UNION {[1..n -> Classes] : n \in 1..(MaxClass + 1)} :
        /\ m[Len(m)] = Object
        /\ \A i, j \in DOMAIN m : i # j => m[i] # m[j]}

(***************************************************************************)
(* iter_mro_reversed: one iteration of the generator's for loop.           *)
(***************************************************************************)
WantedAfterInverted(w, subcls, stp) == subcls # stp

\* the else branch, `wanted = subcls == stop`
WantedAfter(w, subcls, stp) == subcls = stp

YieldsStopToo(w, subcls, stp) == w \/ subcls = stp

\* the test `if wanted:` guarding the yield
Yields(w, subcls, stp) == w

iter_mro_reversed ==
    /\ pos < Len(mro)
    /\ LET subcls == Reverse(mro)[pos + 1] IN
        /\ pos' = pos + 1
        /\ IF Yields(wanted, subcls, stop)
              THEN /\ out' = Append(out, subcls)
                   /\ wanted' = wanted
              ELSE /\ wanted' = WantedAfter(wanted, subcls, stop)
                   /\ out' = out
    /\ UNCHANGED <<mro, stop>>
    /\ UNCHANGED propVars
    /\ UNCHANGED moreVars

\* The generator is exhausted.
Exhausted == pos = Len(mro)

NoProps ==
    /\ descs = <<>>
    /\ origin = <<>>
    /\ dict = <<>>
    /\ last = <<>>
    /\ hist = <<>>
    /\ threads = <<>>
    /\ seq = <<>>

InitMro ==
    /\ mro \in Mros
    /\ stop \in Classes
    /\ pos = 0
    /\ wanted = FALSE
    /\ out = <<>>
    /\ NoProps

NextMro == iter_mro_reversed

SpecMro == InitMro /\ [][NextMro]_vars


(***************************************************************************)
(* cached_property: values, callables and what a call produces             *)
(***************************************************************************)
None == 0                       \* Python's None, a falsy value
Values == {None, 1}             \* a falsy and a truthy value
Absent == -1                    \* no entry under the key / the _sentinel
NoArg == -2                     \* the call takes no value argument
NoObj == 0                      \* `obj is None`: access on the type itself
Objs == {1, 2}                  \* two instances of the owning class

AttributeError == "AttributeError"
Excs == {"TypeError", "ValueError"}    \* exceptions user callables raise

NoFn == "None"
Getters == {"g1", "g2", "g3"}   \* compute functions
Setters == {"s1", "s2"}
Deleters == {"h1", "h2"}

\* fget.__name__: g1 and g3 are two functions that carry the same name.
FnName(f) == CASE f = "g1" -> "x" [] f = "g2" -> "y" [] f = "g3" -> "x"

\* fget.__doc__
FnDoc(f) == CASE f = "g1" -> "doc of g1" [] f = "g2" -> "None"
              [] f = "g3" -> "doc of g3"

\* fget.__module__
FnModule(f) == "app"

Truthy(x) == x \notin {"None", ""}

NoExc == "None"
Return(v) == [kind |-> "return", val |-> v, exc |-> NoExc]
Raise(e) == [kind |-> "raise", val |-> None, exc |-> e]
ReturnSelf(d) == [kind |-> "self", val |-> d, exc |-> NoExc]

\* What one invocation of a user callable can do: return a value or raise.
Results == {Return(v) : v \in Values} \cup {Raise(e) : e \in Excs}

\* The callables are supplied by the user: env is what the call made during
\* one operation does.
Envs == Results

Call(f, obj, arg, res) == [fn |-> f, obj |-> obj, arg |-> arg, res |-> res]

EmptyDict == [k \in {} |-> None]
Store(D, k, v) == [x \in (DOMAIN D) \cup {k} |-> IF x = k THEN v ELSE D[x]]
Pop(D, k) == [x \in (DOMAIN D) \ {k} |-> D[x]]
Lookup(D, k) == IF k \in DOMAIN D THEN D[k] ELSE Absent

\* obj.__dict__[self.__name__] = value, shared by all instances
SetItemShared(H, obj, k, v) == [o \in DOMAIN H |-> Store(H[o], k, v)]

\* obj.__dict__.setdefault(self.__name__, value)
SetItemIfAbsent(H, obj, k, v) ==
    IF k \in DOMAIN H[obj] THEN H ELSE [H EXCEPT ![obj] = Store(@, k, v)]

\* obj.__dict__[self.__name__] = value
SetItem(H, obj, k, v) == [H EXCEPT ![obj] = Store(@, k, v)]

\* The outcome of a descriptor method: the instances' __dict__s afterwards,
\* the user callables invoked, and what reaches the caller.
Outcome(H, calls, res) == [dict |-> H, calls |-> calls, out |-> res]

(***************************************************************************)
(* cached_property.__init__                                                *)
(***************************************************************************)
\* an __init__ that reads no attribute of fget when there is none
cached_property__init__Lenient(fget, fset, fdel, doc, class_attribute) ==
    Return([get |-> fget,
            set |-> fset,
            del |-> fdel,
            doc |-> IF Truthy(doc) \/ fget = NoFn THEN doc ELSE FnDoc(fget),
            name |-> IF fget = NoFn THEN "None" ELSE FnName(fget),
            module |-> "app",
            class_attribute |-> class_attribute])

cached_property__init__(fget, fset, fdel, doc, class_attribute) ==
    IF fget = NoFn
      THEN Raise(AttributeError)      \* None has no __name__
      ELSE Return([get |-> fget,
                   set |-> fset,
                   del |-> fdel,
                   doc |-> IF Truthy(doc) THEN doc ELSE FnDoc(fget),
                   name |-> FnName(fget),
                   module |-> FnModule(fget),
                   class_attribute |-> class_attribute])

(***************************************************************************)
(* The owning type: the attribute a class-level fallback names.            *)
(***************************************************************************)
NoType == "None"
Owner == "Owner"
TypeValue == 1

\* getattr(type, name)
getattr(type, name) ==
    IF name = "fallback" THEN Return(TypeValue) ELSE Raise(AttributeError)

(***************************************************************************)
(* cached_property.__get__                                                 *)
(***************************************************************************)
\* a lookup that takes a falsy stored value for a missing one
CacheHitTruthy(self, D) == self.name \in DOMAIN D /\ D[self.name] # None

\* `obj.__dict__[self.__name__]` does not raise KeyError
CacheHit(self, D) == self.name \in DOMAIN D

\* a __get__ that knows no class-level fallback
cached_property__get__NoFallback(self, d, obj, type, H, env) ==
    IF obj = NoObj
      THEN Outcome(H, <<>>, ReturnSelf(d))
      ELSE IF CacheHit(self, H[obj])
             THEN Outcome(H, <<>>, Return(H[obj][self.name]))
             ELSE IF env.kind = "raise"
                    THEN Outcome(H, <<Call(self.get, obj, NoArg, env)>>, env)
                    ELSE Outcome(SetItem(H, obj, self.name, env.val),
                                 <<Call(self.get, obj, NoArg, env)>>,
                                 Return(env.val))

cached_property__get__(self, d, obj, type, H, env) ==
    IF obj = NoObj
      THEN IF type # NoType /\ Truthy(self.class_attribute)
             THEN Outcome(H, <<>>, getattr(type, self.class_attribute))
             ELSE Outcome(H, <<>>, ReturnSelf(d))
      ELSE IF CacheHit(self, H[obj])
             THEN Outcome(H, <<>>, Return(H[obj][self.name]))
             ELSE LET r == env         \* self.__get(obj)
                      c == <<Call(self.get, obj, NoArg, r)>>
                  IN IF r.kind = "raise"
                       THEN Outcome(H, c, r)
                       ELSE Outcome(SetItem(H, obj, self.name, r.val),
                                    c, Return(r.val))

(***************************************************************************)
(* cached_property.__set__                                                 *)
(***************************************************************************)
\* a __set__ that calls the setter and stores the raw value all the same
cached_property__set__KeepsRaw(self, obj, value, H, env) ==
    IF self.set # NoFn
      THEN LET r == env
               c == <<Call(self.set, obj, value, r)>>
           IN IF r.kind = "raise"
                THEN Outcome(H, c, r)
                ELSE Outcome(SetItem(H, obj, self.name, value), c, Return(None))
      ELSE Outcome(SetItem(H, obj, self.name, value), <<>>, Return(None))

cached_property__set__(self, obj, value, H, env) ==
    IF self.set # NoFn
      THEN LET r == env                \* self.__set(obj, value)
               c == <<Call(self.set, obj, value, r)>>
           IN IF r.kind = "raise"
                THEN Outcome(H, c, r)
                ELSE Outcome(SetItem(H, obj, self.name, r.val), c, Return(None))
      ELSE Outcome(SetItem(H, obj, self.name, value), <<>>, Return(None))

(***************************************************************************)
(* cached_property.__delete__                                              *)
(***************************************************************************)
\* a test that takes a stored None for no value
HookDueNotNone(self, value) ==
    self.del # NoFn /\ value # Absent /\ value # None

\* `self.__del is not None and value is not _sentinel`
HookDue(self, value) == self.del # NoFn /\ value # Absent

\* a __delete__ that reads the value and leaves it stored
cached_property__delete__KeepsValue(self, obj, H, env) ==
    LET value == Lookup(H[obj], self.name)
    IN IF HookDue(self, value)
         THEN LET r == env
                  c == <<Call(self.del, obj, value, r)>>
              IN IF r.kind = "raise"
                   THEN Outcome(H, c, r)
                   ELSE Outcome(H, c, Return(None))
         ELSE Outcome(H, <<>>, Return(None))

\* a __delete__ that runs the hook first and removes the value if it returns
cached_property__delete__HookFirst(self, obj, H, env) ==
    LET value == Lookup(H[obj], self.name)
        H1 == [H EXCEPT ![obj] = Pop(@, self.name)]
    IN IF HookDue(self, value)
         THEN IF env.kind = "raise"
                THEN Outcome(H, <<Call(self.del, obj, value, env)>>, env)
                ELSE Outcome(H1, <<Call(self.del, obj, value, env)>>,
                             Return(None))
         ELSE Outcome(H1, <<>>, Return(None))

\* a __delete__ that suppresses what the delete-hook raises
cached_property__delete__Swallows(self, obj, H, env) ==
    LET value == Lookup(H[obj], self.name)
        H1 == [H EXCEPT ![obj] = Pop(@, self.name)]
    IN IF HookDue(self, value)
         THEN Outcome(H1, <<Call(self.del, obj, value, env)>>, Return(None))
         ELSE Outcome(H1, <<>>, Return(None))

cached_property__delete__(self, obj, H, env) ==
    LET value == Lookup(H[obj], self.name)      \* pop(name, _sentinel)
        H1 == [H EXCEPT ![obj] = Pop(@, self.name)]
    IN IF HookDue(self, value)
         THEN LET r == env             \* self.__del(obj, value)
                  c == <<Call(self.del, obj, value, r)>>
              IN IF r.kind = "raise"
                   THEN Outcome(H1, c, r)
                   ELSE Outcome(H1, c, Return(None))
         ELSE Outcome(H1, <<>>, Return(None))

(***************************************************************************)
(* cached_property.setter / cached_property.deleter                        *)
(***************************************************************************)
\* a setter that loses the delete-hook
setterDropsDeleter(self, fset) ==
    [self |-> self,
     result |-> cached_property__init__(self.get, fset, NoFn, "None", "None")]

\* Each returns the receiver as the call leaves it and the call's result.
setter(self, fset) ==
    [self |-> self,
     result |-> cached_property__init__(self.get, fset, self.del, "None", "None")]

\* a deleter that hands on the doc and the class-level fallback
deleterKeepsClassAttribute(self, fdel) ==
    [self |-> self,
     result |-> cached_property__init__(self.get, self.set, fdel, self.doc,
                                        self.class_attribute)]

deleter(self, fdel) ==
    [self |-> self,
     result |-> cached_property__init__(self.get, self.set, fdel, "None", "None")]


(***************************************************************************)
(* History kept for the properties: the last operation and its               *)
(* predecessor on the same attribute of the same instance.                 *)
(***************************************************************************)
NoOp ==
    [op |-> "none", d |-> 0, obj |-> NoObj, arg |-> NoArg, before |-> Absent,
     calls |-> <<>>, out |-> Return(None)]

Op(op, d, obj, arg, before, r) ==
    [op |-> op, d |-> d, obj |-> obj, arg |-> arg, before |-> before,
     calls |-> r.calls, out |-> r.out]

Succeeded(L) == L.out.kind = "return"

\* The value a write hands to storage: what the setter returned when one was
\* called, the raw value otherwise.
WrittenValue(L) == IF L.calls # <<>> THEN L.calls[1].res.val ELSE L.arg

NoPrev == [op |-> "none", ok |-> FALSE, arg |-> NoArg, val |-> Absent]

Summary(L) ==
    [op |-> L.op,
     ok |-> Succeeded(L),
     arg |-> L.arg,
     val |-> CASE L.op = "delete" -> L.before
               [] L.op = "set" /\ Succeeded(L) -> WrittenValue(L)
               [] L.op = "get" /\ Succeeded(L) -> L.out.val
               [] OTHER -> Absent]

NoHist ==
    [prev |-> NoPrev, reads |-> 0, computes |-> 0, same |-> TRUE,
     stored0 |-> FALSE]

SameTarget(d, obj) == last.op \in {"get", "set", "delete"} /\ last.d = d /\ last.obj = obj

\* A read that continues a run of successful reads of the same attribute.
ContinuesRun(d, obj) == SameTarget(d, obj) /\ last.op = "get" /\ hist.reads >= 1

HistAfter(L) ==
    LET prev == IF SameTarget(L.d, L.obj) THEN Summary(last) ELSE NoPrev IN
    IF L.op = "get" /\ Succeeded(L)
      THEN IF ContinuesRun(L.d, L.obj)
             THEN [prev |-> prev,
                   reads |-> hist.reads + 1,
                   computes |-> hist.computes + Len(L.calls),
                   same |-> hist.same /\ L.out = last.out,
                   stored0 |-> hist.stored0]
             ELSE [prev |-> prev,
                   reads |-> 1,
                   computes |-> Len(L.calls),
                   same |-> TRUE,
                   stored0 |-> L.before # Absent]
      ELSE [NoHist EXCEPT !.prev = prev]

(***************************************************************************)
(* Operations on instances: obj.attr, obj.attr = value, del obj.attr,      *)
(* and Owner.attr, each routed to the descriptor bound to the attribute.   *)
(***************************************************************************)
GetAttr(d, obj) ==
    /\ ~(ContinuesRun(d, obj) /\ hist.reads >= MaxReads)
    /\ \E env \in Envs :
        LET r == cached_property__get__(descs[d], d, obj, Owner, dict, env)
            L == Op("get", d, obj, NoArg, Lookup(dict[obj], descs[d].name), r)
        IN /\ dict' = r.dict
           /\ last' = L
           /\ hist' = HistAfter(L)
    /\ UNCHANGED <<descs, origin, threads>>
    /\ UNCHANGED walkVars

SetAttr(d, obj, value) ==
    /\ \E env \in Envs :
        LET r == cached_property__set__(descs[d], obj, value, dict, env)
            L == Op("set", d, obj, value, Lookup(dict[obj], descs[d].name), r)
        IN /\ dict' = r.dict
           /\ last' = L
           /\ hist' = HistAfter(L)
    /\ UNCHANGED <<descs, origin, threads>>
    /\ UNCHANGED walkVars

DelAttr(d, obj) ==
    /\ \E env \in Envs :
        LET r == cached_property__delete__(descs[d], obj, dict, env)
            L == Op("delete", d, obj, NoArg, Lookup(dict[obj], descs[d].name), r)
        IN /\ dict' = r.dict
           /\ last' = L
           /\ hist' = HistAfter(L)
    /\ UNCHANGED <<descs, origin, threads>>
    /\ UNCHANGED walkVars

ClassGet(d) ==
    /\ \E env \in Envs :
        LET r == cached_property__get__(descs[d], d, NoObj, Owner, dict, env)
            L == Op("classget", d, NoObj, NoArg, Absent, r)
        IN /\ dict' = r.dict
           /\ last' = L
           /\ hist' = HistAfter(L)
    /\ UNCHANGED <<descs, origin>>
    /\ UNCHANGED walkVars
    /\ UNCHANGED moreVars

NoWalk ==
    /\ mro = <<Object>>
    /\ stop = Object
    /\ pos = 0
    /\ wanted = FALSE
    /\ out = <<>>

\* The owning class binds three attributes: one computed by g1 with neither
\* setter nor delete-hook, one computed by g3 (a function named like g1) with
\* both, and one computed by g2 with a setter and a class-level fallback.
ClassTable ==
    <<cached_property__init__("g1", NoFn, NoFn, "None", "None").val,
      cached_property__init__("g3", "s1", "h1", "None", "None").val,
      cached_property__init__("g2", "s2", NoFn, "None", "fallback").val>>

\* No thread is inside a __get__, and no sequence is being counted.
NoMore ==
    /\ threads = <<>>
    /\ seq = <<>>

Init ==
    /\ NoWalk
    /\ descs = ClassTable
    /\ origin = <<>>
    /\ dict = [o \in Objs |-> EmptyDict]
    /\ last = NoOp
    /\ hist = NoHist
    /\ NoMore

Next ==
    \/ \E d \in DOMAIN descs, obj \in Objs :
          GetAttr(d, obj) /\ UNCHANGED seq
    \/ \E d \in DOMAIN descs, obj \in Objs, value \in Values :
          SetAttr(d, obj, value) /\ UNCHANGED seq
    \/ \E d \in DOMAIN descs, obj \in Objs :
          DelAttr(d, obj) /\ UNCHANGED seq
    \/ \E d \in DOMAIN descs : ClassGet(d)

Spec == Init /\ [][Next]_vars


(***************************************************************************)
(* Building descriptors: construction, then .setter(...) / .deleter(...)   *)
(***************************************************************************)
Docs == {"None", "", "explicit doc"}
ClassAttrs == {"None", "fallback"}

Made(how, from, fn, parent) ==
    [how |-> how, from |-> from, fn |-> fn, parent |-> parent]

Setter(d, fset) ==
    /\ Len(descs) < MaxDescs
    /\ LET r == setter(descs[d], fset) IN
        /\ r.result.kind = "return"
        /\ descs' = Append([descs EXCEPT ![d] = r.self], r.result.val)
        /\ origin' = Append(origin, Made("setter", d, fset, descs[d]))
    /\ UNCHANGED <<dict, last, hist>>
    /\ UNCHANGED walkVars
    /\ UNCHANGED moreVars

Deleter(d, fdel) ==
    /\ Len(descs) < MaxDescs
    /\ LET r == deleter(descs[d], fdel) IN
        /\ r.result.kind = "return"
        /\ descs' = Append([descs EXCEPT ![d] = r.self], r.result.val)
        /\ origin' = Append(origin, Made("deleter", d, fdel, descs[d]))
    /\ UNCHANGED <<dict, last, hist>>
    /\ UNCHANGED walkVars
    /\ UNCHANGED moreVars

InitRebind ==
    /\ NoWalk
    /\ \E fget \in Getters, fset \in Setters \cup {NoFn},
          fdel \in Deleters \cup {NoFn}, doc \in Docs, ca \in ClassAttrs :
        LET r == cached_property__init__(fget, fset, fdel, doc, ca) IN
        /\ r.kind = "return"
        /\ descs = <<r.val>>
        /\ origin = <<Made("init", 0, NoFn, r.val)>>
    /\ dict = [o \in Objs |-> EmptyDict]
    /\ last = NoOp
    /\ hist = NoHist
    /\ NoMore

NextRebind ==
    \/ \E d \in DOMAIN descs, fset \in Setters : Setter(d, fset)
    \/ \E d \in DOMAIN descs, fdel \in Deleters : Deleter(d, fdel)

SpecRebind == InitRebind /\ [][NextRebind]_vars


(***************************************************************************)
(* Configuring one attribute, compute function or none, and reading it.    *)
(***************************************************************************)
InitArgs(fget, fset, fdel, doc, ca) ==
    [fget |-> fget, fset |-> fset, fdel |-> fdel, doc |-> doc,
     class_attribute |-> ca]

\* cached_property(fget, fset, fdel, doc, class_attribute) in a class body.
Construct(fget, fset, fdel, doc, ca) ==
    /\ descs = <<>>
    /\ LET r == cached_property__init__(fget, fset, fdel, doc, ca)
           made == r.kind = "return"
       IN /\ descs' = IF made THEN <<r.val>> ELSE descs
          /\ last' = [NoOp EXCEPT !.op = "init",
                                  !.d = 1,
                                  !.arg = InitArgs(fget, fset, fdel, doc, ca),
                                  !.out = IF made THEN ReturnSelf(1) ELSE r]
    /\ UNCHANGED <<origin, dict, hist>>
    /\ UNCHANGED walkVars
    /\ UNCHANGED moreVars

InitConstruct ==
    /\ NoWalk
    /\ descs = <<>>
    /\ origin = <<>>
    /\ dict = [o \in Objs |-> EmptyDict]
    /\ last = NoOp
    /\ hist = NoHist
    /\ NoMore

NextConstruct ==
    \/ \E fget \in Getters \cup {NoFn}, fset \in Setters \cup {NoFn},
          fdel \in Deleters \cup {NoFn}, doc \in Docs, ca \in ClassAttrs :
          Construct(fget, fset, fdel, doc, ca)
    \/ \E d \in DOMAIN descs, obj \in Objs :
          GetAttr(d, obj) /\ UNCHANGED seq

SpecConstruct == InitConstruct /\ [][NextConstruct]_vars


(***************************************************************************)
(* Threads inside cached_property.__get__ without a lock: the lookup, the  *)
(* call of the compute function and the store are separate steps.          *)
(***************************************************************************)
Threads == 1..NumThreads

\* A thread about to read attribute d of instance obj.
Reading(d, obj) ==
    [d |-> d, obj |-> obj, pc |-> "lookup", value |-> Absent,
     out |-> Return(None), calls |-> 0, order |-> 0]

\* try: return obj.__dict__[self.__name__] / except KeyError:
ThreadLookup(t) ==
    LET T == threads[t]
        self == descs[T.d]
    IN /\ T.pc = "lookup"
       /\ threads' =
            [threads EXCEPT ![t] =
                IF CacheHit(self, dict[T.obj])
                  THEN [T EXCEPT !.pc = "done",
                                 !.out = Return(dict[T.obj][self.name])]
                  ELSE [T EXCEPT !.pc = "compute"]]
       /\ UNCHANGED <<descs, origin, dict, last, hist, seq>>
       /\ UNCHANGED walkVars

\* self.__get(obj)
ThreadCompute(t) ==
    LET T == threads[t] IN
    /\ T.pc = "compute"
    /\ \E env \in Envs :
        threads' =
            [threads EXCEPT ![t] =
                IF env.kind = "raise"
                  THEN [T EXCEPT !.pc = "done", !.out = env,
                                 !.calls = T.calls + 1]
                  ELSE [T EXCEPT !.pc = "store", !.value = env.val,
                                 !.calls = T.calls + 1]]
    /\ UNCHANGED <<descs, origin, dict, last, hist, seq>>
    /\ UNCHANGED walkVars

\* value = obj.__dict__[self.__name__] = ...; return value
ThreadStore(t) ==
    LET T == threads[t]
        self == descs[T.d]
    IN /\ T.pc = "store"
       /\ dict' = SetItem(dict, T.obj, self.name, T.value)
       /\ threads' =
            [threads EXCEPT ![t] =
                [T EXCEPT !.pc = "done",
                          !.out = Return(T.value),
                          !.order = 1 + Cardinality(
                                      {u \in Threads : threads[u].order > 0})]]
       /\ UNCHANGED <<descs, origin, last, hist, seq>>
       /\ UNCHANGED walkVars

\* Every thread reads the same attribute, each of an instance of its own
\* choice, and nothing is stored yet.
InitThreads ==
    /\ NoWalk
    /\ descs = ClassTable
    /\ origin = <<>>
    /\ dict = [o \in Objs |-> EmptyDict]
    /\ last = NoOp
    /\ hist = NoHist
    /\ \E d \in DOMAIN ClassTable, objs \in [Threads -> Objs] :
          threads = [t \in Threads |-> Reading(d, objs[t])]
    /\ seq = <<>>

NextThreads ==
    \/ \E t \in Threads : ThreadLookup(t)
    \/ \E t \in Threads : ThreadCompute(t)
    \/ \E t \in Threads : ThreadStore(t)

SpecThreads == InitThreads /\ [][NextThreads]_vars


(***************************************************************************)
(* Class-level access to descriptors built by construction and rebinding.  *)
(***************************************************************************)
NextClassLevel ==
    \/ \E d \in DOMAIN descs, fset \in Setters : Setter(d, fset)
    \/ \E d \in DOMAIN descs, fdel \in Deleters : Deleter(d, fdel)
    \/ \E d \in DOMAIN descs : ClassGet(d)

SpecClassLevel == InitRebind /\ [][NextClassLevel]_vars


(***************************************************************************)
(* A sequence of reads, writes and deletes of one attribute of one         *)
(* instance, single-threaded, with counts kept over the whole sequence.    *)
(***************************************************************************)
Counting(d, obj) ==
    [d |-> d, obj |-> obj, n |-> 0, rw |-> FALSE, lastop |-> "none",
     computes |-> 0, missreads |-> 0, allok |-> TRUE]

\* The counts after operation L, which found `before` stored.
SeqAfter(L) ==
    [seq EXCEPT
        !.n = @ + 1,
        !.rw = @ \/ L.op \in {"get", "set"},
        !.lastop = L.op,
        !.computes = @ + Cardinality({i \in DOMAIN L.calls :
                                        L.calls[i].fn \in Getters}),
        !.missreads = @ + (IF L.op = "get" /\ L.before = Absent THEN 1 ELSE 0),
        !.allok = @ /\ Succeeded(L)]

SeqGet ==
    /\ seq.n < MaxOps
    /\ GetAttr(seq.d, seq.obj)
    /\ seq' = SeqAfter(last')

SeqSet(value) ==
    /\ seq.n < MaxOps
    /\ SetAttr(seq.d, seq.obj, value)
    /\ seq' = SeqAfter(last')

SeqDel ==
    /\ seq.n < MaxOps
    /\ DelAttr(seq.d, seq.obj)
    /\ seq' = SeqAfter(last')

InitSeq ==
    /\ NoWalk
    /\ descs = ClassTable
    /\ origin = <<>>
    /\ dict = [o \in Objs |-> EmptyDict]
    /\ last = NoOp
    /\ hist = NoHist
    /\ threads = <<>>
    /\ \E d \in DOMAIN ClassTable, obj \in Objs : seq = Counting(d, obj)

NextSeq ==
    \/ SeqGet
    \/ \E value \in Values : SeqSet(value)
    \/ SeqDel

SpecSeq == InitSeq /\ [][NextSeq]_vars

(***************************************************************************)
(* Properties of iter_mro_reversed                                         *)
(***************************************************************************)
IndexOf(s, x) == CHOOSE i \in DOMAIN s : s[i] = x

\* The classes that come strictly after class x in the base-to-derived order.
StrictlyAfter(m, x) ==
    LET r == Reverse(m) IN SubSeq(r, IndexOf(r, x) + 1, Len(r))

IsPrefix(s, t) == Len(s) <= Len(t) /\ s = SubSeq(t, 1, Len(s))

C3_StopAbsentYieldsNothing ==
    stop \notin Range(mro) => (~wanted /\ out = <<>>)

C3_Witness ==
    /\ Exhausted
    /\ stop \notin Range(mro)
    /\ Len(mro) >= 3

(***************************************************************************)
(* Properties of cached_property                                           *)
(***************************************************************************)
IsInstanceOp == last.op \in {"get", "set", "delete"}

\* The descriptor the last operation went through and the slot it uses.
Self == descs[last.d]
Slot == Lookup(dict[last.obj], Self.name)

\* C4: in a run of consecutive reads of one attribute of one instance, the
\* compute function is invoked once if nothing was stored when the run began
\* and not at all otherwise, and every read returns the same value, the
\* stored one, whatever it is.
C4_IdempotentRead ==
    hist.reads >= 1 =>
        /\ hist.computes = (IF hist.stored0 THEN 0 ELSE 1)
        /\ hist.same
        /\ last.out = Return(Slot)
        /\ hist.reads >= 2 => last.calls = <<>>

\* Three reads in a row, the first of which computed None.
C4_Witness ==
    /\ hist.reads = MaxReads
    /\ ~hist.stored0
    /\ hist.computes = 1
    /\ last.out = Return(None)

\* C5: a read that follows a successful write to the same attribute of the
\* same instance returns the written value (the setter's return value when
\* a setter is configured, the raw value otherwise) and invokes no compute
\* function, whatever was stored before the write.
C5_WriteThenRead ==
    (last.op = "get" /\ hist.prev.op = "set" /\ hist.prev.ok) =>
        /\ last.calls = <<>>
        /\ last.out = Return(hist.prev.val)
        /\ Self.set = NoFn => hist.prev.val = hist.prev.arg

\* A read after a write whose setter returned something other than the raw
\* value.
C5_Witness ==
    /\ last.op = "get"
    /\ hist.prev.op = "set"
    /\ hist.prev.ok
    /\ Self.set # NoFn
    /\ hist.prev.val # hist.prev.arg
    /\ last.out = Return(hist.prev.val)

\* C6: a read that follows a delete which removed a stored value from the
\* same attribute of the same instance invokes the compute function once,
\* and when that returns, its result is what the read stores and returns.
C6_DeleteThenRead ==
    (last.op = "get" /\ hist.prev.op = "delete" /\ hist.prev.val # Absent) =>
        /\ Len(last.calls) = 1
        /\ last.calls[1].fn = Self.get
        /\ last.calls[1].obj = last.obj
        /\ last.out = last.calls[1].res
        /\ Succeeded(last) => Slot = last.calls[1].res.val

\* A read after a delete that returns a value other than the deleted one.
C6_Witness ==
    /\ last.op = "get"
    /\ hist.prev.op = "delete"
    /\ hist.prev.val # Absent
    /\ Succeeded(last)
    /\ last.out.val # hist.prev.val

\* C7: a delete through a descriptor with a delete-hook invokes the hook
\* once, with the instance and the removed value, exactly when a value
\* (None included) was stored; with nothing stored, or without a hook, it
\* invokes nothing and raises nothing.  Either way no value is stored after.
C7_DeleteHook ==
    last.op = "delete" =>
        /\ Slot = Absent
        /\ (Self.del # NoFn /\ last.before # Absent) =>
             /\ Len(last.calls) = 1
             /\ last.calls[1].fn = Self.del
             /\ last.calls[1].obj = last.obj
             /\ last.calls[1].arg = last.before
        /\ (Self.del = NoFn \/ last.before = Absent) =>
             /\ last.calls = <<>>
             /\ last.out = Return(None)

\* A delete that removed a stored None and called the hook with it.
C7_Witness ==
    /\ last.op = "delete"
    /\ last.before = None
    /\ Len(last.calls) = 1
    /\ last.calls[1].arg = None

\* The descriptor a derived descriptor stems from.
RECURSIVE Root(_)
Root(i) == IF origin[i].how = "init" THEN i ELSE Root(origin[i].from)

\* C8: setter(fn) and deleter(fn) make a new descriptor and leave the one
\* they are called on as it was; the new one has the compute function of the
\* original, the given function as the hook it names and the original's
\* other hook, so a chain of both, in either order, has the compute function
\* of the first descriptor and both given hooks.
C8_Rebinding ==
    \A i \in DOMAIN descs :
        LET o == origin[i] IN
        /\ o.how = "init" => descs[i] = o.parent
        /\ o.how # "init" =>
            /\ o.from < i
            /\ descs[o.from] = o.parent
            /\ descs[i].get = o.parent.get
            /\ descs[i].get = descs[Root(i)].get
            /\ o.how = "setter" =>
                 (descs[i].set = o.fn /\ descs[i].del = o.parent.del)
            /\ o.how = "deleter" =>
                 (descs[i].del = o.fn /\ descs[i].set = o.parent.set)
            /\ (origin[o.from].how \notin {"init", o.how}) =>
                 /\ o.how = "setter" =>
                      (descs[i].set = o.fn /\ descs[i].del = origin[o.from].fn)
                 /\ o.how = "deleter" =>
                      (descs[i].del = o.fn /\ descs[i].set = origin[o.from].fn)

\* A descriptor with both hooks replaced, by .deleter(...).setter(...).
C8_Witness ==
    /\ Len(descs) = 3
    /\ origin[2].how = "deleter" /\ origin[2].from = 1
    /\ origin[3].how = "setter" /\ origin[3].from = 2
    /\ descs[1].set = "s1" /\ descs[1].del = "h1"
    /\ descs[3].set = "s2" /\ descs[3].del = "h2"
    /\ descs[3].get = descs[1].get

\* C9: an operation on an attribute of one instance leaves the __dict__ of
\* every other instance as it was, passes only its own instance to the
\* callables it invokes, and adds or removes no key of its instance's
\* __dict__ other than the attribute's one.
C9_Step ==
    IsInstanceOp' =>
        /\ \A o \in Objs \ {last'.obj} : dict'[o] = dict[o]
        /\ \A i \in DOMAIN last'.calls : last'.calls[i].obj = last'.obj
        /\ \A k \in (DOMAIN dict'[last'.obj]) \cup (DOMAIN dict[last'.obj]) :
             k # descs[last'.d].name =>
                /\ k \in DOMAIN dict'[last'.obj]
                /\ k \in DOMAIN dict[last'.obj]
                /\ dict'[last'.obj][k] = dict[last'.obj][k]

C9_PerInstanceIsolation == [][C9_Step]_vars

\* A write on one instance while the other holds a different value under
\* the same key.
C9_Witness ==
    /\ last.op = "set"
    /\ Succeeded(last)
    /\ \E o \in Objs \ {last.obj} :
        /\ Self.name \in DOMAIN dict[o]
        /\ dict[o][Self.name] # Slot

\* C10: when a callable invoked by a read, a write or a delete raises, it is
\* the only call the operation makes and what it raised is what reaches the
\* caller.
C10_ErrorsPropagate ==
    IsInstanceOp =>
        \A i \in DOMAIN last.calls :
            last.calls[i].res.kind = "raise" =>
                (Len(last.calls) = 1 /\ last.out = last.calls[i].res)

\* A delete whose hook raised ValueError.
C10_Witness ==
    /\ last.op = "delete"
    /\ Len(last.calls) = 1
    /\ last.calls[1].fn \in Deleters
    /\ last.out = Raise("ValueError")

\* C11 as stated: a descriptor configured without a compute function can be
\* created and attached; the error waits for the first read.
C11_AsStated ==
    (last.op = "init" /\ last.arg.fget = NoFn) => last.out.kind = "self"

\* C11 amended: configuring a cached attribute without a compute function
\* raises AttributeError when the descriptor is constructed, whatever the
\* other arguments; no descriptor without a compute function ever exists, so
\* no read goes through one.
C11_ErrorAtConstruction ==
    /\ (last.op = "init" /\ last.arg.fget = NoFn) =>
          (last.out = Raise(AttributeError) /\ descs = <<>>)
    /\ \A i \in DOMAIN descs : descs[i].get # NoFn
    /\ last.op = "get" => (last.d \in DOMAIN descs /\ Self.get # NoFn)

\* A construction without compute function, with a doc, a setter and a hook.
C11_Witness ==
    /\ last.op = "init"
    /\ last.arg.fget = NoFn
    /\ last.arg.doc = "explicit doc"
    /\ last.arg.fset # NoFn
    /\ last.arg.fdel # NoFn
    /\ last.out = Raise(AttributeError)

\* The threads that have stored a value for instance o, and the last of them.
Storers(o) == {t \in Threads : threads[t].obj = o /\ threads[t].order > 0}
LastStorer(o) ==
    CHOOSE t \in Storers(o) : \A u \in Storers(o) : threads[u].order <= threads[t].order

\* C12: without a lock every thread whose lookup found nothing invokes the
\* compute function itself, once, and returns its own result; what stays
\* stored for an instance is the value of the thread that stored last.
\* (That two threads both compute for one instance is the witness.)
C12_UnsynchronizedReads ==
    /\ \A t \in Threads :
        LET T == threads[t] IN
        /\ T.calls <= 1
        /\ T.pc \in {"lookup", "compute"} => T.calls = 0
        /\ T.pc = "store" => T.calls = 1
        /\ (T.pc = "done" /\ T.calls = 1 /\ T.out.kind = "return") =>
              (T.order > 0 /\ T.out = Return(T.value))
        /\ (T.pc = "done" /\ T.calls = 0) => T.out.kind = "return"
    /\ \A o \in Objs :
        Storers(o) # {} =>
            Lookup(dict[o], descs[threads[LastStorer(o)].d].name)
                = threads[LastStorer(o)].value

\* Two reads of one instance have both computed, with no delete anywhere,
\* and returned different values; the later store is what stays.
C12_Witness ==
    \E t, u \in Threads :
        /\ t # u
        /\ threads[t].obj = threads[u].obj
        /\ threads[t].pc = "done" /\ threads[u].pc = "done"
        /\ threads[t].calls = 1 /\ threads[u].calls = 1
        /\ threads[t].order = 1 /\ threads[u].order = 2
        /\ threads[t].out.kind = "return" /\ threads[u].out.kind = "return"
        /\ threads[t].out # threads[u].out
        /\ Lookup(dict[threads[u].obj], descs[threads[u].d].name)
              = threads[u].out.val

\* C13: reading the attribute on the owning type returns the type's
\* fallback attribute when the descriptor names one and the descriptor
\* itself otherwise, invokes no callable, and leaves every instance's
\* __dict__ as it was.
C13_Step ==
    last'.op = "classget" =>
        /\ dict' = dict
        /\ last'.calls = <<>>
        /\ last'.out = IF descs[last'.d].class_attribute = "fallback"
                         THEN Return(TypeValue)
                         ELSE ReturnSelf(last'.d)

C13_ClassLevelAccess == [][C13_Step]_vars

\* A class-level read answered by the fallback while an instance holds a
\* stored value for the attribute.
C13_Witness ==
    /\ last.op = "classget"
    /\ Self.class_attribute = "fallback"
    /\ last.out = Return(TypeValue)
    /\ \E o \in Objs : Self.name \in DOMAIN dict[o]


\* C17: a descriptor made by setter(fn) or deleter(fn) has no class-level
\* fallback and no explicitly supplied doc, whatever the original had: its
\* class_attribute is None and its doc is the compute function's, so a
\* class-level read through it returns the descriptor itself.
C17_DerivedDropsFallback ==
    /\ \A i \in DOMAIN descs :
        origin[i].how # "init" =>
            /\ descs[i].class_attribute = "None"
            /\ descs[i].doc = FnDoc(descs[i].get)
    /\ (last.op = "classget" /\ origin[last.d].how # "init") =>
            last.out = ReturnSelf(last.d)

\* A class-level read through a descriptor derived from one that had a
\* fallback and an explicit doc.
C17_Witness ==
    /\ last.op = "classget"
    /\ origin[last.d].how = "setter"
    /\ origin[last.d].parent.class_attribute = "fallback"
    /\ origin[last.d].parent.doc = "explicit doc"
    /\ last.out = ReturnSelf(last.d)

\* The value stored on instance o for the attribute bound to descriptor d.
StoredFor(H, d, o) == Lookup(H[o], descs[d].name)

\* C14: two different cached attributes of a class never share a storage
\* slot: a read, write or delete of one attribute on an instance leaves the
\* stored value of every other attribute on that instance as it was, also
\* when their compute functions carry the same name.
C14_Step ==
    IsInstanceOp' =>
        \A d2 \in (DOMAIN descs) \ {last'.d} :
            StoredFor(dict', d2, last'.obj) = StoredFor(dict, d2, last'.obj)

C14_AsStated == [][C14_Step]_vars

\* C16: a read whose compute function raises stores nothing; a write whose
\* setter raises leaves what was stored, or that nothing was, unchanged; a
\* delete whose hook raises has removed the value all the same.  The read
\* that follows a failed read or a failed delete invokes the compute
\* function.
C16_StateAfterFailure ==
    /\ (last.op = "get" /\ last.out.kind = "raise") =>
          (last.before = Absent /\ Slot = Absent)
    /\ (last.op = "set" /\ last.out.kind = "raise") => Slot = last.before
    /\ (last.op = "delete" /\ last.out.kind = "raise") =>
          /\ last.before # Absent
          /\ Slot = Absent
          /\ last.calls = <<Call(Self.del, last.obj, last.before, last.out)>>
    /\ (last.op = "get" /\ hist.prev.op \in {"get", "delete"} /\ ~hist.prev.ok) =>
          /\ Len(last.calls) = 1
          /\ last.calls[1].fn = Self.get
          /\ last.out = last.calls[1].res

\* A read that recomputed after a delete whose hook raised.
C16_Witness ==
    /\ last.op = "get"
    /\ hist.prev.op = "delete"
    /\ ~hist.prev.ok
    /\ hist.prev.val # Absent
    /\ Succeeded(last)
    /\ Len(last.calls) = 1
    /\ Slot = last.out.val

\* C15: after any sequence of successful reads, writes and deletes of one
\* attribute of one instance, a value is stored exactly when a read or a
\* write has occurred and the last operation is not a delete, and the
\* compute function has been invoked as many times as there were reads that
\* found nothing stored.
C15_CacheState ==
    seq.allok =>
        /\ (StoredFor(dict, seq.d, seq.obj) # Absent)
              <=> (seq.rw /\ seq.lastop # "delete")
        /\ seq.computes = seq.missreads

\* A read, a delete and a read again: two computations, a value stored.
C15_Witness ==
    /\ seq.allok
    /\ seq.n >= 3
    /\ seq.lastop = "get"
    /\ seq.computes = 2
    /\ seq.missreads = 2
    /\ StoredFor(dict, seq.d, seq.obj) # Absent

====
